---- MODULE Spec2Model ----
(***************************************************************************)
(* Model of the caddy "attach" middleware (src/plugin.go): the handler     *)
(* AttachToTangleHandler.ServeHTTP, the attacher doPow and the directive   *)
(* parser setup, with the process-wide state powFn, maxTxInBundle and mu,  *)
(* and the historical doPow that took a depth (src/unnamed/part_001).      *)
(*                                                                         *)
(* Bytes, trytes and digests are small integers.  A request body is a      *)
(* sequence of bytes, a transaction's trytes a fixed-width sequence of     *)
(* fields, a digest one integer.  The codecs of the libraries the handler  *)
(* calls (encoding/json, giota) are operators that parse and print those   *)
(* sequences.  A transaction's value field is read by log lines only and   *)
(* is carried inside the payload field.                                    *)
(***************************************************************************)
EXTENDS Integers, Sequences, FiniteSets, TLC

\* ---------------------------------------------------------------- bounds
NumReqs == 2        \* concurrent requests
MaxLen == 3         \* longest trytes list a client sends, one request at a time
MaxConcLen == 2     \* longest trytes list a client sends, requests in parallel
MaxAnchor == 2      \* distinct branch anchors (the trunk anchor is 1)
MaxNonce == 2       \* distinct nonces the PoW function finds
MaxClock == 2       \* wall-clock milliseconds that pass

Reqs == 1..NumReqs
\* A transaction's payload is named by its place in the list its client sends.
Payloads == 1..(IF MaxLen > MaxConcLen THEN MaxLen ELSE MaxConcLen)

\* ------------------------------------------------------ program constants
DefaultMaxTx == 200
FixedMWM == 14
StatusOK == 200
StatusBadRequest == 400
StatusInternalServerError == 500
attachToTangleCommand == 1   \* the byte that stands for "attachToTangle"
maxTimestampTrytes == 99     \* stands for "L99999999", above every clock value

\* ------------------------------------------------------------ error values
NoErr == [kind |-> "nil", arg |-> 0]
ErrMissingBody == [kind |-> "ErrMissingBody", arg |-> 0]
ErrBuildingTx == [kind |-> "ErrBuildingTx", arg |-> 0]
ErrBuildingRes == [kind |-> "ErrBuildingRes", arg |-> 0]
ErrTxBundleLimitExceeded(limit) == [kind |-> "ErrTxBundleLimitExceeded", arg |-> limit]

\* ------------------------------------------------- giota transaction codec
\* A decoded giota.Transaction.
Tx(p, trunk, branch, ts, lower, upper, nonce) ==
    [payload |-> p, TrunkTransaction |-> trunk, BranchTransaction |-> branch,
     AttachmentTimestamp |-> ts, AttachmentTimestampLowerBound |-> lower,
     AttachmentTimestampUpperBound |-> upper, Nonce |-> nonce]

\* tx.Trytes(): the fixed-width serialisation of a transaction.
Trytes(tx) ==
    <<tx.payload, tx.TrunkTransaction, tx.BranchTransaction, tx.AttachmentTimestamp,
      tx.AttachmentTimestampLowerBound, tx.AttachmentTimestampUpperBound, tx.Nonce>>

TxWidth == Len(Trytes(Tx(0, 0, 0, 0, 0, 0, 0)))

\* giota.NewTransaction succeeds on trytes of the transaction width whose
\* payload is a payload.
ValidTrytes(t) == Len(t) = TxWidth /\ t[1] \in Payloads

\* giota.NewTransaction(trytes), for valid trytes.
NewTransaction(t) == Tx(t[1], t[2], t[3], t[4], t[5], t[6], t[7])

RECURSIVE Absorb(_, _)
Absorb(acc, s) ==
    IF s = <<>> THEN acc ELSE Absorb((acc * 31 + Head(s) + 1) % 9973, Tail(s))

\* tx.Hash(): a digest of the serialised transaction, nonce included.
Hash(tx) == Absorb(7, Trytes(tx))

\* ------------------------------------------------------ encoding/json codec
ObjByte == 123
NullByte == 110
GarbageByte == 60

RECURSIVE EncodeList(_)
EncodeList(l) ==
    IF l = <<>> THEN <<>> ELSE <<Len(Head(l))>> \o Head(l) \o EncodeList(Tail(l))

\* The bytes of the JSON object {command, trunkTransaction, branchTransaction,
\* minWeightMagnitude, trytes}.
EncodeCmd(name, trunk, branch, mwm, list) ==
    <<ObjByte, name, trunk, branch, mwm, Len(list)>> \o EncodeList(list)

\* The n length-prefixed entries that make up s; ok is FALSE when s is not
\* n such entries.
RECURSIVE DecodeList(_, _)
DecodeList(s, n) ==
    IF n = 0
    THEN [ok |-> s = <<>>, list |-> <<>>]
    ELSE IF s = <<>> \/ Head(s) < 0 \/ Len(s) < 1 + Head(s)
         THEN [ok |-> FALSE, list |-> <<>>]
         ELSE LET rest == DecodeList(SubSeq(s, 2 + Head(s), Len(s)), n - 1)
              IN  [ok |-> rest.ok, list |-> <<SubSeq(s, 2, 1 + Head(s))>> \o rest.list]

NilCmd == [isNil |-> TRUE, Command |-> 0, TrunkTxHash |-> 0, BranchTxHash |-> 0,
           MWM |-> 0, Trytes |-> <<>>]

\* json.NewDecoder(bytes.NewReader(contents)).Decode(&command): err is TRUE
\* when the bytes are no JSON value that fits the command; the JSON null
\* leaves a nil command pointer.
DecodeJSON(contents) ==
    IF contents = <<NullByte>>
    THEN [err |-> FALSE, cmd |-> NilCmd]
    ELSE IF Len(contents) >= 6 /\ contents[1] = ObjByte /\ contents[6] >= 0
         THEN LET l == DecodeList(SubSeq(contents, 7, Len(contents)), contents[6])
              IN  [err |-> ~l.ok,
                   cmd |-> [isNil |-> FALSE, Command |-> contents[2],
                            TrunkTxHash |-> contents[3], BranchTxHash |-> contents[4],
                            MWM |-> contents[5], Trytes |-> l.list]]
         ELSE [err |-> TRUE, cmd |-> NilCmd]

\* ----------------------------------------------------------- request body
\* An io.Reader over bytes: content and the number of bytes already read.
NewReader(contents) == [content |-> contents, pos |-> 0, broken |-> FALSE, isNil |-> FALSE]
BrokenReader == [content |-> <<>>, pos |-> 0, broken |-> TRUE, isNil |-> FALSE]
NilBody == [content |-> <<>>, pos |-> 0, broken |-> FALSE, isNil |-> TRUE]

\* What a reader of the body still gets.
Remaining(body) == SubSeq(body.content, body.pos + 1, Len(body.content))

\* The body after ioutil.ReadAll.
Drained(body) == [body EXCEPT !.pos = Len(body.content)]

\* ------------------------------------------------------------ strconv.Atoi
\* A directive argument is a sequence of characters: 0..9 are the digits,
\* LetterChar a character that is no digit.
LetterChar == 10

RECURSIVE Digits(_, _)
Digits(acc, s) == IF s = <<>> THEN acc ELSE Digits(acc * 10 + Head(s), Tail(s))

\* strconv.Atoi(arg): (0, err) unless arg is a non-empty run of digits.
Atoi(arg) ==
    IF arg # <<>> /\ \A k \in 1..Len(arg) : arg[k] \in 0..9
    THEN [val |-> Digits(0, arg), err |-> FALSE]
    ELSE [val |-> 0, err |-> TRUE]

\* ------------------------------------------------------------------ inputs
MaxDirectives == 2  \* occurrences of the attach directive in one configuration
ArgTokens == {<<1>>, <<LetterChar>>}
DirectiveLines == {<<>>} \cup {<<a>> : a \in ArgTokens}
Configs == UNION {[1..n -> DirectiveLines] : n \in 1..MaxDirectives}

OtherCommand == 2
RequestMWM == 18
\* Trytes of the right width that are no transaction.
MalformedTrytes == Trytes(Tx(0, 0, 0, 0, 0, 0, 0))
\* The lists of up to maxLen entries: the k-th entry is the unattached
\* transaction with payload k, or malformed.
TrytesLists(maxLen) ==
    UNION {{[k \in 1..n |-> IF k \in bad THEN MalformedTrytes
                                         ELSE Trytes(Tx(k, 0, 0, 0, 0, 0, 0))] :
               bad \in SUBSET (1..n)} : n \in 0..maxLen}
AttachBodies(maxLen) ==
    {EncodeCmd(attachToTangleCommand, 1, b, RequestMWM, l) :
        b \in 1..MaxAnchor, l \in TrytesLists(maxLen)}
Contents(maxLen) ==
    AttachBodies(maxLen) \cup {<<>>, <<GarbageByte>>, <<NullByte>>,
                               EncodeCmd(OtherCommand, 1, 1, RequestMWM, <<>>)}
\* The requests clients send, with trytes lists of up to maxLen entries.
Requests(maxLen) ==
    {[method |-> "POST", body |-> b] :
        b \in {NilBody, BrokenReader} \cup {NewReader(c) : c \in Contents(maxLen)}}
    \cup {[method |-> "GET",
           body |-> NewReader(EncodeCmd(attachToTangleCommand, 1, 1, RequestMWM,
                                        <<Trytes(Tx(1, 0, 0, 0, 0, 0, 0))>>))]}

\* A second value of minWeightMagnitude, and the request q with mwm in that
\* field of its body and nothing else changed.
LowMWM == 9
WithMWM(q, mwm) ==
    [q EXCEPT !.body.content =
        IF Len(@) >= 6 /\ @[1] = ObjByte THEN [@ EXCEPT ![5] = mwm] ELSE @]

\* ------------------------------------------------------------------- state
VARIABLES
    powFn,          \* the selected PoW function: "nil" before setup
    maxTxInBundle,  \* the configured bundle limit
    mu,             \* the mutex: 0 when free, else the request holding it
    now,            \* the wall clock, in milliseconds
    pc,             \* where each request is in ServeHTTP
    req,            \* the request as received: method and body
    rbody,          \* r.Body as the next handler would read it
    command,        \* the decoded command
    transactions,   \* bundle.Transactions
    idx,            \* doPow's loop index i, counted from 1
    prev,           \* doPow's prev
    powRet,         \* what doPow returned: "none", "nil" or "err"
    start,          \* the time the attach operation began
    status,         \* the status ServeHTTP returned
    err,            \* the error ServeHTTP returned
    written,        \* the response written to w: <<>> or <<[trytes, duration]>>
    nextSaw,        \* the bodies handed to the next handler: <<>> or <<bytes>>
    powLog,         \* the calls made to the PoW function: index, input, mwm
    caddyfile       \* the directive lines the controller held at the last run
                    \* of setup that was observed: <<>> or <<lines>>

vars == <<powFn, maxTxInBundle, mu, now, pc, req, rbody, command, transactions,
          idx, prev, powRet, start, status, err, written, nextSaw, powLog, caddyfile>>

\* The process-wide state that ServeHTTP reads and never writes.
global == <<powFn, maxTxInBundle, caddyfile>>
local == <<req, rbody, command, transactions, idx, prev, powRet, start, status,
           err, written, nextSaw, powLog>>

NoRequest == [method |-> "", body |-> NilBody]

Init ==
    /\ powFn = "nil"
    /\ maxTxInBundle = DefaultMaxTx
    /\ mu = 0
    /\ now = 1
    /\ pc = [r \in Reqs |-> "idle"]
    /\ req = [r \in Reqs |-> NoRequest]
    /\ rbody = [r \in Reqs |-> NilBody]
    /\ command = [r \in Reqs |-> NilCmd]
    /\ transactions = [r \in Reqs |-> <<>>]
    /\ idx = [r \in Reqs |-> 0]
    /\ prev = [r \in Reqs |-> 0]
    /\ powRet = [r \in Reqs |-> "none"]
    /\ start = [r \in Reqs |-> 0]
    /\ status = [r \in Reqs |-> 0]
    /\ err = [r \in Reqs |-> NoErr]
    /\ written = [r \in Reqs |-> <<>>]
    /\ nextSaw = [r \in Reqs |-> <<>>]
    /\ powLog = [r \in Reqs |-> <<>>]
    /\ caddyfile = <<>>

\* time.Now(): the clock stands or advances, up to MaxClock.
Clock(t) == t \in now..(IF now < MaxClock THEN now + 1 ELSE now)

\* ------------------------------------------------------------------- setup
\* The loop of setup over the directive's occurrences: a line without an
\* argument ends the loop, an argument sets the limit, or the default when
\* it is no integer.
RECURSIVE SetupLoop(_, _)
SetupLoop(lines, limit) ==
    IF lines = <<>> THEN limit
    ELSE IF Head(lines) = <<>> THEN limit
    ELSE LET a == Atoi(Head(Head(lines)))
         IN  SetupLoop(Tail(lines), IF a.err THEN DefaultMaxTx ELSE a.val)

\* setup runs at start and at every reload of the configuration, while no
\* request is being served.
Setup(lines) ==
    /\ \A r \in Reqs : pc[r] \in {"off", "idle", "done", "panicked"}
    /\ powFn' = "best"
    /\ maxTxInBundle' = SetupLoop(lines, maxTxInBundle)
    /\ UNCHANGED <<mu, now, pc, local>>

\* ---------------------------------------------------------------- ServeHTTP
\* Return without the deferred mu.Unlock.
ReturnNoUnlock(r, st, e) ==
    /\ pc' = [pc EXCEPT ![r] = "done"]
    /\ status' = [status EXCEPT ![r] = st]
    /\ err' = [err EXCEPT ![r] = e]
    /\ mu' = mu

\* ServeHTTP returns (st, e); the deferred mu.Unlock runs when the request
\* holds the mutex.
Return(r, st, e) ==
    /\ pc' = [pc EXCEPT ![r] = "done"]
    /\ status' = [status EXCEPT ![r] = st]
    /\ err' = [err EXCEPT ![r] = e]
    /\ mu' = IF mu = r THEN 0 ELSE mu

\* h.Next.ServeHTTP(w, r) is entered: the next handler gets r.Body as it is.
CallNext(r, body) ==
    /\ pc' = [pc EXCEPT ![r] = "next"]
    /\ nextSaw' = [nextSaw EXCEPT ![r] = <<Remaining(body)>>]

\* The body left as ioutil.ReadAll left it.
ReAddNothing(contents) == Drained(NewReader(contents))

\* Line 100: r.Body is replaced by a fresh reader over the bytes read.
ReAddBody(contents) == NewReader(contents)

\* An interception that does not look at the command's name.
InterceptedAny(cmd) == TRUE

\* Line 107: only the attachToTangle command is intercepted.
Intercepted(cmd) == cmd.Command = attachToTangleCommand

\* Lines 83-109: the request arrives and is inspected, up to mu.Lock.
Receive(r, q) ==
    /\ pc[r] = "idle"
    /\ powFn # "nil"
    /\ req' = [req EXCEPT ![r] = q]
    /\ IF q.method # "POST"
       THEN /\ CallNext(r, q.body)
            /\ rbody' = [rbody EXCEPT ![r] = q.body]
            /\ UNCHANGED <<command, status, err, mu>>
       ELSE IF q.body.isNil \/ q.body.broken
       THEN /\ Return(r, StatusBadRequest, ErrMissingBody)
            /\ rbody' = [rbody EXCEPT ![r] = q.body]
            /\ UNCHANGED <<command, nextSaw>>
       ELSE LET contents == Remaining(q.body)
                d == DecodeJSON(contents)
                readded == ReAddBody(contents)
            IN  /\ rbody' = [rbody EXCEPT ![r] = readded]
                /\ command' = [command EXCEPT ![r] = d.cmd]
                /\ IF d.err
                   THEN CallNext(r, readded) /\ UNCHANGED <<status, err, mu>>
                   ELSE IF d.cmd.isNil
                   THEN /\ pc' = [pc EXCEPT ![r] = "panicked"]
                        /\ UNCHANGED <<status, err, mu, nextSaw>>
                   ELSE IF ~Intercepted(d.cmd)
                   THEN CallNext(r, readded) /\ UNCHANGED <<status, err, mu>>
                   ELSE /\ pc' = [pc EXCEPT ![r] = "lock"]
                        /\ UNCHANGED <<status, err, mu, nextSaw>>
    /\ UNCHANGED <<global, now, transactions, idx, prev, powRet, start, written, powLog>>

\* A lock that is taken without waiting for its holder.
LockNoWait(r) ==
    /\ pc[r] = "lock"
    /\ mu' = r
    /\ pc' = [pc EXCEPT ![r] = "check"]
    /\ UNCHANGED <<global, now, local>>

\* Line 113: mu.Lock() returns once the mutex is free.
Lock(r) ==
    /\ pc[r] = "lock"
    /\ mu = 0
    /\ mu' = r
    /\ pc' = [pc EXCEPT ![r] = "check"]
    /\ UNCHANGED <<global, now, local>>

\* A limit check that turns away a list of exactly the limit.
TooLargeAtLimit(n, limit) == n >= limit

\* A limit check that lets one entry too many through.
TooLargeOffByOne(n, limit) == n > limit + 1

\* Line 127: len(txTrytes) > maxTxInBundle.
TooLarge(n, limit) == n > limit

\* Lines 116-129: the start time and the checks of the list's length.
Check(r) ==
    /\ pc[r] = "check"
    /\ \E t \in {u \in now..MaxClock : Clock(u)} :
        /\ now' = t
        /\ start' = [start EXCEPT ![r] = t]
    /\ LET txTrytes == command[r].Trytes
       IN  IF Len(txTrytes) = 0
           THEN CallNext(r, rbody[r]) /\ UNCHANGED <<status, err, mu>>
           ELSE IF TooLarge(Len(txTrytes), maxTxInBundle)
           THEN /\ Return(r, StatusBadRequest, ErrTxBundleLimitExceeded(maxTxInBundle))
                /\ UNCHANGED nextSaw
           ELSE /\ pc' = [pc EXCEPT ![r] = "decode"]
                /\ UNCHANGED <<status, err, mu, nextSaw>>
    /\ UNCHANGED <<global, req, rbody, command, transactions, idx, prev, powRet,
                   written, powLog>>

\* A decoding loop that stops after the entry it decodes first.
AllDecodeFirstOnly(txTrytes) == ValidTrytes(txTrytes[Len(txTrytes)])

\* Lines 134-138: every entry decodes.
AllDecode(txTrytes) == \A k \in 1..Len(txTrytes) : ValidTrytes(txTrytes[k])

\* The transactions in the order of the entries.
AssembleForward(txTrytes) == [k \in 1..Len(txTrytes) |-> NewTransaction(txTrytes[k])]

\* Lines 133-146: the transactions, appended from the last entry to the first.
Assemble(txTrytes) ==
    [k \in 1..Len(txTrytes) |-> NewTransaction(txTrytes[Len(txTrytes) + 1 - k])]

\* Lines 131-156: the entries are decoded from the last to the first and
\* appended in that order; doPow is entered with i = len(tx)-1.
Decode(r) ==
    /\ pc[r] = "decode"
    /\ LET txTrytes == command[r].Trytes
           n == Len(txTrytes)
       IN  IF ~AllDecode(txTrytes)
           THEN /\ Return(r, StatusBadRequest, ErrBuildingTx)
                /\ UNCHANGED <<transactions, idx>>
           ELSE /\ transactions' = [transactions EXCEPT ![r] = Assemble(txTrytes)]
                /\ idx' = [idx EXCEPT ![r] = n]
                /\ pc' = [pc EXCEPT ![r] = "pow"]
                /\ UNCHANGED <<status, err, mu>>
    /\ UNCHANGED <<global, now, req, rbody, command, prev, powRet, start, written,
                   nextSaw, powLog>>

\* -------------------------------------------------------------------- doPow
\* Every record given the trunk anchor as its trunk.
StampedUnchained(tx, isLast, trunk, branch, prevHash, t) ==
    [tx EXCEPT
        !.TrunkTransaction = trunk,
        !.BranchTransaction = IF isLast THEN branch ELSE trunk,
        !.AttachmentTimestamp = t,
        !.AttachmentTimestampLowerBound = 0,
        !.AttachmentTimestampUpperBound = maxTimestampTrytes]

\* Every record given the branch anchor as its branch.
StampedBranch(tx, isLast, trunk, branch, prevHash, t) ==
    [tx EXCEPT
        !.TrunkTransaction = IF isLast THEN trunk ELSE prevHash,
        !.BranchTransaction = branch,
        !.AttachmentTimestamp = t,
        !.AttachmentTimestampLowerBound = 0,
        !.AttachmentTimestampUpperBound = maxTimestampTrytes]

\* Lines 202-214: the record at index i gets its references and timestamps.
Stamped(tx, isLast, trunk, branch, prevHash, t) ==
    [tx EXCEPT
        !.TrunkTransaction = IF isLast THEN trunk ELSE prevHash,
        !.BranchTransaction = IF isLast THEN branch ELSE trunk,
        !.AttachmentTimestamp = t,
        !.AttachmentTimestampLowerBound = 0,
        !.AttachmentTimestampUpperBound = maxTimestampTrytes]

\* A difficulty taken from the request's minWeightMagnitude.
PowDifficultyOfRequest(cmd) == cmd.MWM

\* Line 160: the difficulty doPow is given, which it hands to pow (line 215).
PowDifficulty(cmd) == FixedMWM

\* Lines 201-215: one iteration of the loop up to the call of pow.
PowCall(r) ==
    /\ pc[r] = "pow"
    /\ \E t \in {u \in now..MaxClock : Clock(u)} :
        LET i == idx[r]
            tx == Stamped(transactions[r][i], i = Len(transactions[r]),
                          command[r].TrunkTxHash, command[r].BranchTxHash, prev[r], t)
        IN  /\ now' = t
            /\ transactions' = [transactions EXCEPT ![r][i] = tx]
            /\ powLog' = [powLog EXCEPT
                   ![r] = Append(@, [index |-> i, input |-> Trytes(tx),
                                     mwm |-> PowDifficulty(command[r])])]
    /\ pc' = [pc EXCEPT ![r] = "inpow"]
    /\ UNCHANGED <<global, mu, req, rbody, command, idx, prev, powRet, start, status,
                   err, written, nextSaw>>

\* What the PoW function returns: a nonce, or an error and the empty nonce.
PowResults == {[nonce |-> n, ok |-> TRUE] : n \in 1..MaxNonce} \cup {[nonce |-> 0, ok |-> FALSE]}

\* A digest taken of the record as it was handed to pow.
HashBeforeNonce(sent, stored) == Hash(sent)

\* Line 221: tx[i].Hash(), of the record with the nonce of line 215 stored.
HashOfAttached(sent, stored) == Hash(stored)

\* A loop that leaves out the record at index 0.
LoopDoneEarly(i) == i <= 2

\* Line 201: after the record at i (counted from 1) the loop condition
\* i >= 0 fails for the decremented index.
LoopDone(i) == i = 1

\* An error of pow that doPow does not look at.
PowFailedUnseen(res) == FALSE

\* Line 217: err != nil.
PowFailed(res) == ~res.ok

\* Lines 215-223, and line 160 where ServeHTTP drops doPow's result: pow
\* returns, the nonce is stored, and the loop goes on, ends, or returns the
\* error.
PowReturn(r, res) ==
    /\ pc[r] = "inpow"
    /\ LET i == idx[r]
           tx == [transactions[r][i] EXCEPT !.Nonce = res.nonce]
       IN  /\ transactions' = [transactions EXCEPT ![r][i] = tx]
           /\ IF PowFailed(res)
              THEN /\ powRet' = [powRet EXCEPT ![r] = "err"]
                   /\ pc' = [pc EXCEPT ![r] = "respond"]
                   /\ UNCHANGED <<prev, idx>>
              ELSE /\ prev' = [prev EXCEPT ![r] = HashOfAttached(transactions[r][i], tx)]
                   /\ idx' = [idx EXCEPT ![r] = i - 1]
                   /\ powRet' = [powRet EXCEPT ![r] = IF LoopDone(i) THEN "nil" ELSE @]
                   /\ pc' = [pc EXCEPT ![r] = IF LoopDone(i) THEN "respond" ELSE "pow"]
    /\ UNCHANGED <<global, mu, now, req, rbody, command, start, status, err, written,
                   nextSaw, powLog>>

\* Lines 163-179: the response is built from bundle.Transactions in index
\* order, encoded and written.
Respond(r, marshalled) ==
    /\ pc[r] = "respond"
    /\ \E t \in {u \in now..MaxClock : Clock(u)} :
        /\ now' = t
        /\ IF marshalled
           THEN /\ written' = [written EXCEPT
                       ![r] = <<[trytes |-> [k \in 1..Len(transactions[r]) |->
                                                Trytes(transactions[r][k])],
                                 duration |-> t - start[r]]>>]
                /\ Return(r, StatusOK, NoErr)
           ELSE /\ Return(r, StatusInternalServerError, ErrBuildingRes)
                /\ UNCHANGED written
    /\ UNCHANGED <<global, req, rbody, command, transactions, idx, prev, powRet, start,
                   nextSaw, powLog>>

\* The next handler returns and ServeHTTP returns what it returned.
NextReturn(r) ==
    /\ pc[r] = "next"
    /\ Return(r, 0, NoErr)
    /\ UNCHANGED <<global, now, req, rbody, command, transactions, idx, prev, powRet,
                   start, written, nextSaw, powLog>>

\* ------------------------------------------- doPow with depth (historical)
MaxDepth == 3       \* depth values 0..MaxDepth; the historical caller passes 3

\* A loop that attaches no more records than depth.
FirstIndexWithinDepth(depth, n) == IF depth < n THEN depth ELSE n

\* part_001 line 159: i := len(tx) - 1, whatever depth is.
FirstIndex(depth, n) == n

\* part_001 lines 159-180: the loop of the historical doPow from index i
\* (counted from 1) on.  env.time[i] is the clock read in iteration i and
\* env.pow[i] what the PoW function returns there; calls are the PoW calls
\* made so far.
RECURSIVE doPowDepthLoop(_, _, _, _, _, _, _, _)
doPowDepthLoop(tra, depth, tx, mwm, env, i, prevHash, calls) ==
    IF i < 1
    THEN [tx |-> tx, calls |-> calls, err |-> FALSE]
    ELSE LET isLast == i = Len(tx)
             sent == [tx[i] EXCEPT
                        !.TrunkTransaction = IF isLast THEN tra.Trunk ELSE prevHash,
                        !.BranchTransaction = IF isLast THEN tra.Branch ELSE tra.Trunk,
                        !.AttachmentTimestamp = env.time[i],
                        !.AttachmentTimestampLowerBound = 0,
                        !.AttachmentTimestampUpperBound = maxTimestampTrytes]
             res == env.pow[i]
             stored == [sent EXCEPT !.Nonce = res.nonce]
             made == Append(calls, [index |-> i, input |-> Trytes(sent), mwm |-> mwm])
         IN  IF ~res.ok
             THEN [tx |-> [tx EXCEPT ![i] = stored], calls |-> made, err |-> TRUE]
             ELSE doPowDepthLoop(tra, depth, [tx EXCEPT ![i] = stored], mwm, env,
                                 i - 1, Hash(stored), made)

\* part_001 lines 156-182: doPow(tra, depth, tx, mwm, pow).
doPowDepth(tra, depth, tx, mwm, env) ==
    doPowDepthLoop(tra, depth, tx, mwm, env, FirstIndex(depth, Len(tx)), 0, <<>>)

\* Requests served in parallel.
Next ==
    \/ \E lines \in Configs : Setup(lines) /\ UNCHANGED caddyfile
    \/ \E r \in Reqs, q \in Requests(MaxConcLen) : Receive(r, q)
    \/ \E r \in Reqs : Lock(r)
    \/ \E r \in Reqs : Check(r)
    \/ \E r \in Reqs : Decode(r)
    \/ \E r \in Reqs : PowCall(r)
    \/ \E r \in Reqs, res \in PowResults : PowReturn(r, res)
    \/ \E r \in Reqs, marshalled \in BOOLEAN : Respond(r, marshalled)
    \/ \E r \in Reqs : NextReturn(r)

Spec == Init /\ [][Next]_vars

\* One request at a time, with the longer trytes lists.
InitOne ==
    /\ Init!1 /\ Init!2 /\ Init!3 /\ Init!4
    /\ pc = [r \in Reqs |-> IF r = 1 THEN "idle" ELSE "off"]
    /\ Init!6 /\ Init!7 /\ Init!8 /\ Init!9 /\ Init!10 /\ Init!11 /\ Init!12
    /\ Init!13 /\ Init!14 /\ Init!15 /\ Init!16 /\ Init!17 /\ Init!18 /\ Init!19

NextOne ==
    \/ \E lines \in Configs : Setup(lines) /\ UNCHANGED caddyfile
    \/ \E q \in Requests(MaxLen) : Receive(1, q)
    \/ Lock(1)
    \/ Check(1)
    \/ Decode(1)
    \/ PowCall(1)
    \/ \E res \in PowResults : PowReturn(1, res)
    \/ \E marshalled \in BOOLEAN : Respond(1, marshalled)
    \/ NextReturn(1)

SpecOne == InitOne /\ [][NextOne]_vars

\* One request at a time, with the directive lines of every run of setup
\* kept for inspection.
NextSetup ==
    \/ \E lines \in Configs : Setup(lines) /\ caddyfile' = <<lines>>
    \/ \E q \in Requests(MaxConcLen) : Receive(1, q)
    \/ Lock(1)
    \/ Check(1)
    \/ Decode(1)
    \/ PowCall(1)
    \/ \E res \in PowResults : PowReturn(1, res)
    \/ \E marshalled \in BOOLEAN : Respond(1, marshalled)
    \/ NextReturn(1)

SpecSetup == InitOne /\ [][NextSetup]_vars

\* ServeHTTP has returned or panicked.
Settled(r) == pc[r] \in {"done", "panicked"}

\* Two requests under one configuration, the second sent when the first has
\* been served and equal to it but for its minWeightMagnitude.
InitPair ==
    /\ Init!1 /\ Init!2 /\ Init!3 /\ Init!4
    /\ pc = [r \in Reqs |-> IF r <= 2 THEN "idle" ELSE "off"]
    /\ Init!6 /\ Init!7 /\ Init!8 /\ Init!9 /\ Init!10 /\ Init!11 /\ Init!12
    /\ Init!13 /\ Init!14 /\ Init!15 /\ Init!16 /\ Init!17 /\ Init!18 /\ Init!19

NextPair ==
    \/ /\ pc[1] = "idle" /\ pc[2] = "idle"
       /\ \E lines \in Configs : Setup(lines) /\ UNCHANGED caddyfile
    \/ \E q \in Requests(MaxConcLen) : Receive(1, q)
    \/ Settled(1) /\ Receive(2, WithMWM(req[1], LowMWM))
    \/ \E r \in {1, 2} : Lock(r)
    \/ \E r \in {1, 2} : Check(r)
    \/ \E r \in {1, 2} : Decode(r)
    \/ \E r \in {1, 2} : PowCall(r)
    \/ \E r \in {1, 2}, res \in PowResults : PowReturn(r, res)
    \/ \E r \in {1, 2}, marshalled \in BOOLEAN : Respond(r, marshalled)
    \/ \E r \in {1, 2} : NextReturn(r)

SpecPair == InitPair /\ [][NextPair]_vars

\* The server calls ServeHTTP again: a request that has been served makes
\* room for the next one.
Recycle(r) ==
    /\ Settled(r)
    /\ pc' = [pc EXCEPT ![r] = "idle"]
    /\ req' = [req EXCEPT ![r] = NoRequest]
    /\ rbody' = [rbody EXCEPT ![r] = NilBody]
    /\ command' = [command EXCEPT ![r] = NilCmd]
    /\ transactions' = [transactions EXCEPT ![r] = <<>>]
    /\ idx' = [idx EXCEPT ![r] = 0]
    /\ prev' = [prev EXCEPT ![r] = 0]
    /\ powRet' = [powRet EXCEPT ![r] = "none"]
    /\ start' = [start EXCEPT ![r] = 0]
    /\ status' = [status EXCEPT ![r] = 0]
    /\ err' = [err EXCEPT ![r] = NoErr]
    /\ written' = [written EXCEPT ![r] = <<>>]
    /\ nextSaw' = [nextSaw EXCEPT ![r] = <<>>]
    /\ powLog' = [powLog EXCEPT ![r] = <<>>]
    /\ UNCHANGED <<global, mu, now>>

\* Requests served in parallel, without end.
NextLive ==
    \/ Next
    \/ \E r \in Reqs : Recycle(r)

\* Every goroutine that can take a step takes one, the PoW function and the
\* next handler return, and a goroutine that waits for the mutex gets it
\* when it is free again and again.
Fairness ==
    \A r \in Reqs :
        /\ SF_vars(Lock(r))
        /\ WF_vars(Check(r))
        /\ WF_vars(Decode(r))
        /\ WF_vars(PowCall(r))
        /\ WF_vars(\E res \in PowResults : PowReturn(r, res))
        /\ WF_vars(\E marshalled \in BOOLEAN : Respond(r, marshalled))
        /\ WF_vars(NextReturn(r))

SpecLive == Init /\ [][NextLive]_vars /\ Fairness

\* ------------------------------------------------------------------ claims
\* The trytes list of the request as the client sent it.
InputTrytes(r) == DecodeJSON(req[r].body.content).cmd.Trytes

\* The request is a POST whose body parses as an attachToTangle command.
AttachPost(r) ==
    /\ req[r].method = "POST"
    /\ ~req[r].body.isNil
    /\ ~req[r].body.broken
    /\ LET d == DecodeJSON(req[r].body.content)
       IN  ~d.err /\ ~d.cmd.isNil /\ d.cmd.Command = attachToTangleCommand

\* The request is inside doPow: from its entry to the return of its last
\* PoW invocation.
InDoPow(r) == pc[r] \in {"pow", "inpow"}

\* The request is between mu.Lock and the return of ServeHTTP.
InGate(r) ==
    \/ pc[r] \in {"check", "decode", "pow", "inpow", "respond"}
    \/ pc[r] = "next" /\ AttachPost(r)

\* C1: at most one request is inside doPow at a time; no request has a PoW
\* invocation running while another request is between its first and its
\* last PoW invocation.
C1_PowSerialized ==
    \A r1, r2 \in Reqs :
        r1 # r2 => ~(InDoPow(r1) /\ InDoPow(r2))

\* C1 witness: a request waits at the mutex while another is in its second
\* PoW invocation.
C1_Witness ==
    \E r1, r2 \in Reqs :
        /\ r1 # r2
        /\ pc[r1] = "inpow" /\ Len(powLog[r1]) = 2
        /\ pc[r2] = "lock"

\* C2: when doPow has returned without error, every record but the last has
\* as trunk the hash of the next record as it is then, nonce included, and
\* the last record has the two anchors.
C2_TrunkChain ==
    \A r \in Reqs :
        powRet[r] = "nil" =>
            LET tx == transactions[r]
                n == Len(tx)
            IN  /\ n >= 1
                /\ \A i \in 1..n : tx[i].Nonce # 0
                /\ \A i \in 1..(n - 1) : tx[i].TrunkTransaction = Hash(tx[i + 1])
                /\ tx[n].TrunkTransaction = command[r].TrunkTxHash
                /\ tx[n].BranchTransaction = command[r].BranchTxHash

\* C2 witness: doPow has returned without error on a bundle of three.
C2_Witness ==
    \E r \in Reqs : powRet[r] = "nil" /\ Len(transactions[r]) = 3

\* C3 as stated: every record but the last has the trunk anchor as branch,
\* and the last record alone has the branch anchor as branch.
C3_Original ==
    \A r \in Reqs :
        powRet[r] = "nil" =>
            LET tx == transactions[r]
                n == Len(tx)
            IN  \A i \in 1..n :
                    /\ i < n => tx[i].BranchTransaction = command[r].TrunkTxHash
                    /\ tx[i].BranchTransaction = command[r].BranchTxHash <=> i = n

\* C3 amended: every record but the last has the trunk anchor as branch, the
\* last record has the branch anchor, and no other record has it when the
\* two anchors differ.
C3_BranchAnchors ==
    \A r \in Reqs :
        powRet[r] = "nil" =>
            LET tx == transactions[r]
                n == Len(tx)
                T == command[r].TrunkTxHash
                B == command[r].BranchTxHash
            IN  /\ \A i \in 1..(n - 1) : tx[i].BranchTransaction = T
                /\ tx[n].BranchTransaction = B
                /\ T # B => \A i \in 1..(n - 1) : tx[i].BranchTransaction # B

\* C3 witness: doPow has returned without error on a bundle of three whose
\* anchors differ.
C3_Witness ==
    \E r \in Reqs :
        /\ powRet[r] = "nil" /\ Len(transactions[r]) = 3
        /\ command[r].TrunkTxHash # command[r].BranchTxHash

LimitKind == "ErrTxBundleLimitExceeded"

\* A request leaves the length check with more entries than the limit: it
\* returns the limit error with the limit, and has called neither the PoW
\* function nor the next handler, nor written a response.
C4_Step ==
    \A r \in Reqs :
        (pc[r] = "check" /\ pc'[r] # "check" /\ Len(InputTrytes(r)) > maxTxInBundle) =>
            /\ pc'[r] = "done"
            /\ status'[r] = StatusBadRequest
            /\ err'[r] = [kind |-> LimitKind, arg |-> maxTxInBundle]
            /\ powLog'[r] = <<>> /\ nextSaw'[r] = <<>> /\ written'[r] = <<>>

C4_Done ==
    \A r \in Reqs :
        (pc[r] = "done" /\ err[r].kind = LimitKind) =>
            /\ AttachPost(r)
            /\ Len(InputTrytes(r)) > err[r].arg
            /\ status[r] = StatusBadRequest
            /\ powLog[r] = <<>> /\ nextSaw[r] = <<>> /\ written[r] = <<>>

\* C4: an attachToTangle request whose trytes list is longer than the
\* configured limit, decodable or not, returns the bundle-too-large error
\* carrying the limit, makes no PoW call and does not call the next handler.
C4_TooLargeRejected == [][C4_Step]_vars /\ []C4_Done

\* C4 witness: a list of three entries, one of them malformed, was rejected
\* under the limit 1.
C4_Witness ==
    \E r \in Reqs :
        /\ pc[r] = "done" /\ err[r] = [kind |-> LimitKind, arg |-> 1]
        /\ Len(InputTrytes(r)) = 3
        /\ \E k \in 1..3 : ~ValidTrytes(InputTrytes(r)[k])

\* C5 as stated: a request one of whose PoW calls failed ends as a failure
\* with the error and without a response; status 200 only when every PoW
\* call succeeded.
C5_PowFailureSurfaced ==
    \A r \in Reqs :
        pc[r] = "done" =>
            /\ powRet[r] = "err" =>
                  status[r] # StatusOK /\ err[r] # NoErr /\ written[r] = <<>>
            /\ status[r] = StatusOK => powRet[r] = "nil"

\* The response's entries and the request's entries agree in the order
\* given by at: the k-th response entry is a transaction with the payload of
\* input entry at[k], and is attached when every PoW call succeeded.
ResponseFollows(r, at(_, _)) ==
    LET inp == InputTrytes(r)
        out == written[r][1].trytes
        n == Len(inp)
    IN  /\ Len(out) = n
        /\ \A k \in 1..n :
              /\ ValidTrytes(out[k])
              /\ NewTransaction(out[k]).payload = NewTransaction(inp[at(k, n)]).payload
              /\ powRet[r] = "nil" =>
                    /\ NewTransaction(out[k]).Nonce # 0
                    /\ NewTransaction(out[k]).AttachmentTimestampUpperBound = maxTimestampTrytes

SameIndex(k, n) == k
ReverseIndex(k, n) == n + 1 - k

\* C6 as stated: the response has the request's length and order.
C6_Original ==
    \A r \in Reqs :
        (pc[r] = "done" /\ status[r] = StatusOK) =>
            written[r] # <<>> /\ ResponseFollows(r, SameIndex)

\* C6 amended: the response has the request's length and the reverse of its
\* order: the k-th response entry is the attached encoding of the
\* transaction decoded from input entry N-1-k.
C6_ResponseReversed ==
    \A r \in Reqs :
        (pc[r] = "done" /\ status[r] = StatusOK) =>
            written[r] # <<>> /\ ResponseFollows(r, ReverseIndex)

\* C6 witness: a response to three entries, the first and the last of which
\* differ, every PoW call having succeeded.
C6_Witness ==
    \E r \in Reqs :
        /\ pc[r] = "done" /\ status[r] = StatusOK /\ powRet[r] = "nil"
        /\ Len(InputTrytes(r)) = 3
        /\ InputTrytes(r)[1] # InputTrytes(r)[3]

\* C7: a POST that was handed to the next handler (its body failed to parse,
\* named another command, or had no trytes) was handed over with all the
\* bytes of the original body unread, and made no PoW call.
C7_PassThroughIntact ==
    \A r \in Reqs :
        (nextSaw[r] # <<>> /\ req[r].method = "POST") =>
            /\ nextSaw[r][1] = req[r].body.content
            /\ powLog[r] = <<>>
            /\ \/ DecodeJSON(req[r].body.content).err
               \/ DecodeJSON(req[r].body.content).cmd.Command # attachToTangleCommand
               \/ InputTrytes(r) = <<>>

\* C7 witness: an attachToTangle command without trytes is with the next
\* handler, which has its bytes.
C7_Witness ==
    \E r \in Reqs :
        /\ pc[r] = "next" /\ AttachPost(r) /\ InputTrytes(r) = <<>>
        /\ nextSaw[r] = <<req[r].body.content>>
        /\ Len(req[r].body.content) > 0

\* C8: when no request is between mu.Lock and its return the mutex is free,
\* and a request that returned does not hold it.
C8_GateReleased ==
    /\ (\A r \in Reqs : ~InGate(r)) => mu = 0
    /\ \A r \in Reqs : pc[r] \in {"done", "panicked"} => mu # r

\* C8 witness: two requests have returned, one with the limit error and one
\* after a failed PoW call, and the mutex is free.
C8_Witness ==
    \E r1, r2 \in Reqs :
        /\ pc[r1] = "done" /\ err[r1].kind = LimitKind
        /\ pc[r2] = "done" /\ powRet[r2] = "err"
        /\ mu = 0

Section == {"check", "decode", "pow", "inpow", "respond"}

C9_Held ==
    \A r1 \in Reqs :
        pc[r1] \in Section =>
            /\ mu = r1
            /\ \A r2 \in Reqs \ {r1} :
                  \/ pc[r2] \in {"idle", "lock", "done", "panicked"}
                  \/ pc[r2] = "next" /\ ~AttachPost(r2)

C9_Step ==
    \A r \in Reqs :
        /\ (mu # r /\ mu' = r) => (pc[r] = "lock" /\ pc'[r] = "check")
        /\ (mu = r /\ mu' # r) => pc'[r] = "done"
        /\ pc'[r] = "lock" => pc[r] \in {"idle", "lock"}

\* C9: a request does its length check, decoding, PoW calls and response
\* encoding while it holds the mutex, which it takes once, before the length
\* check, and gives up only when it returns; while one request does these
\* steps every other has not begun them or has returned.
C9_WholeOperationInGate == []C9_Held /\ [][C9_Step]_vars

\* C9 witness: a request is encoding its response after two PoW calls, and
\* the other request, which made PoW calls too, has returned with status 200.
C9_Witness ==
    \E r1, r2 \in Reqs :
        /\ r1 # r2
        /\ pc[r1] = "respond" /\ Len(powLog[r1]) = 2
        /\ pc[r2] = "done" /\ status[r2] = StatusOK /\ powLog[r2] # <<>>

C10_Step ==
    \A r \in Reqs :
        /\ (pc[r] = "check" /\ pc'[r] # "check"
            /\ Len(InputTrytes(r)) >= 1 /\ Len(InputTrytes(r)) <= maxTxInBundle)
           => pc'[r] = "decode"
        /\ (pc[r] = "decode" /\ pc'[r] # "decode"
            /\ \E k \in 1..Len(InputTrytes(r)) : ~ValidTrytes(InputTrytes(r)[k]))
           => /\ pc'[r] = "done"
              /\ status'[r] = StatusBadRequest
              /\ err'[r] = ErrBuildingTx
              /\ powLog'[r] = <<>> /\ nextSaw'[r] = <<>> /\ written'[r] = <<>>

C10_State ==
    \A r \in Reqs :
        /\ powLog[r] # <<>> =>
              \A k \in 1..Len(InputTrytes(r)) : ValidTrytes(InputTrytes(r)[k])
        /\ (pc[r] = "done" /\ err[r] = ErrBuildingTx) =>
              /\ status[r] = StatusBadRequest
              /\ powLog[r] = <<>> /\ nextSaw[r] = <<>> /\ written[r] = <<>>

\* C10: an attachToTangle request with 1..limit entries one of which does not
\* decode returns the malformed-transaction error, makes no PoW call (a PoW
\* call is made only when every entry decoded), writes no response and does
\* not call the next handler.
C10_MalformedRejected == [][C10_Step]_vars /\ []C10_State

\* C10 witness: of three entries only the first, decoded last, was
\* malformed, and the request returned the malformed-transaction error.
C10_Witness ==
    \E r \in Reqs :
        /\ pc[r] = "done" /\ err[r] = ErrBuildingTx
        /\ Len(InputTrytes(r)) = 3
        /\ ~ValidTrytes(InputTrytes(r)[1])
        /\ ValidTrytes(InputTrytes(r)[2]) /\ ValidTrytes(InputTrytes(r)[3])

\* C11 as stated: after a run of setup over one occurrence of the directive,
\* first or later, the limit is the directive's argument when that is an
\* integer, and the default 200 when the argument is absent or no integer.
C11_LimitFollowsDirective ==
    \A k \in 1..Len(caddyfile) :
        Len(caddyfile[k]) = 1 =>
            LET line == caddyfile[k][1]
            IN  IF line # <<>> /\ ~Atoi(line[1]).err
                THEN maxTxInBundle = Atoi(line[1]).val
                ELSE maxTxInBundle = DefaultMaxTx

\* A PoW call without the fields that hold or digest a timestamp: the trunk
\* of a record is kept only when it is the anchor.
PowShape(r) ==
    [j \in 1..Len(powLog[r]) |->
        LET c == powLog[r][j]
            tx == NewTransaction(c.input)
        IN  [index |-> c.index, mwm |-> c.mwm, payload |-> tx.payload,
             trunk |-> IF j = 1 THEN tx.TrunkTransaction ELSE 0,
             branch |-> tx.BranchTransaction,
             lower |-> tx.AttachmentTimestampLowerBound,
             upper |-> tx.AttachmentTimestampUpperBound,
             nonce |-> tx.Nonce]]

\* What the PoW function and the response encoder did for the two requests
\* is the same: the nonces found and whether the encoding failed.
SamePowOutcomes(r1, r2) ==
    /\ Len(transactions[r1]) = Len(transactions[r2])
    /\ \A k \in 1..Len(transactions[r1]) :
          transactions[r1][k].Nonce = transactions[r2][k].Nonce
    /\ (err[r1] = ErrBuildingRes) <=> (err[r2] = ErrBuildingRes)

\* The two requests read the same times in doPow.
SameStamps(r1, r2) ==
    \A k \in 1..Len(transactions[r1]) :
        transactions[r1][k].AttachmentTimestamp = transactions[r2][k].AttachmentTimestamp

\* C12: every PoW call is given the difficulty 14, and two requests that
\* differ only in minWeightMagnitude, served under the same limit and given
\* the same nonces, make the same PoW calls up to timestamps (the same calls
\* when they read the same times) and end the same way.
C12_DifficultyFixed ==
    /\ \A r \in Reqs : \A j \in 1..Len(powLog[r]) : powLog[r][j].mwm = 14
    /\ (Settled(1) /\ Settled(2) /\ SamePowOutcomes(1, 2)) =>
          /\ PowShape(1) = PowShape(2)
          /\ pc[1] = pc[2] /\ status[1] = status[2] /\ err[1] = err[2]
          /\ (nextSaw[1] = <<>>) <=> (nextSaw[2] = <<>>)
          /\ Len(written[1]) = Len(written[2])
          /\ SameStamps(1, 2) =>
                /\ powLog[1] = powLog[2]
                /\ transactions[1] = transactions[2]
                /\ \A k \in 1..Len(written[1]) :
                      written[1][k].trytes = written[2][k].trytes

\* C12 witness: two requests whose bodies differ, in minWeightMagnitude only,
\* have each made two PoW calls with the same results at the same times and
\* were answered with status 200.
C12_Witness ==
    /\ Settled(1) /\ Settled(2) /\ SamePowOutcomes(1, 2) /\ SameStamps(1, 2)
    /\ req[1] # req[2] /\ req[2] = WithMWM(req[1], LowMWM)
    /\ command[1].MWM = RequestMWM /\ command[2].MWM = LowMWM
    /\ Len(powLog[1]) = 2 /\ Len(powLog[2]) = 2
    /\ status[1] = StatusOK /\ status[2] = StatusOK

\* The indices of the PoW calls the request has made, in the order made.
PowIndices(r) == [j \in 1..Len(powLog[r]) |-> powLog[r][j].index]

\* The PoW call for the record at index k has returned an error: the call
\* was made, is over, and left the empty nonce.
PowErrorAt(r, k) ==
    /\ \E j \in 1..Len(powLog[r]) : powLog[r][j].index = k
    /\ ~(pc[r] = "inpow" /\ idx[r] = k)
    /\ transactions[r][k].Nonce = 0

\* The record at index k is as it was serialised for its PoW call, with a
\* nonce found by that call.
AsAttached(r, k) ==
    \E j \in 1..Len(powLog[r]) :
        /\ powLog[r][j].index = k
        /\ transactions[r][k].Nonce # 0
        /\ [transactions[r][k] EXCEPT !.Nonce = 0] = NewTransaction(powLog[r][j].input)

C13_State ==
    \A r \in Reqs : \A k \in 1..Len(transactions[r]) :
        PowErrorAt(r, k) =>
            /\ powRet[r] = "err" /\ ~InDoPow(r)
            /\ \A j \in 1..Len(powLog[r]) : powLog[r][j].index >= k
            /\ \A i \in 1..(k - 1) :
                  transactions[r][i] = NewTransaction(InputTrytes(r)[Len(InputTrytes(r)) + 1 - i])
            /\ \A i \in (k + 1)..Len(transactions[r]) : AsAttached(r, i)

C13_Step ==
    \A r \in Reqs :
        powRet[r] = "err" =>
            /\ powRet'[r] = "err"
            /\ transactions'[r] = transactions[r]
            /\ powLog'[r] = powLog[r]

\* C13: when the PoW call for the record at index k returns an error doPow
\* returns the error at once: no PoW call is made for an index below k, the
\* records below k stay as they were decoded, the records above k stay as
\* they were attached, and nothing of the bundle changes afterwards.
C13_ErrorStopsLoop == []C13_State /\ [][C13_Step]_vars

\* C13 witness: of three records the PoW call for the middle one failed;
\* the request has returned.
C13_Witness ==
    \E r \in Reqs :
        /\ pc[r] = "done" /\ powRet[r] = "err"
        /\ Len(transactions[r]) = 3 /\ PowErrorAt(r, 2)
        /\ PowIndices(r) = <<3, 2>>

C14_State ==
    \A r \in Reqs :
        LET n == Len(transactions[r])
        IN  /\ Len(powLog[r]) <= n
            /\ \A j \in 1..Len(powLog[r]) : powLog[r][j].index = n + 1 - j
            /\ powRet[r] = "nil" => Len(powLog[r]) = n /\ n >= 1
            /\ (pc[r] = "inpow" /\ idx[r] < n) =>
                  /\ transactions[r][idx[r] + 1].Nonce # 0
                  /\ prev[r] = Hash(transactions[r][idx[r] + 1])
                  /\ transactions[r][idx[r]].TrunkTransaction = prev[r]

C14_Step ==
    \A r \in Reqs :
        powLog'[r] # powLog[r] =>
            /\ pc[r] = "pow" /\ pc'[r] = "inpow"
            /\ Len(powLog'[r]) = Len(powLog[r]) + 1
            /\ SubSeq(powLog'[r], 1, Len(powLog[r])) = powLog[r]
            /\ \A i \in (idx[r] + 1)..Len(transactions[r]) :
                  /\ transactions[r][i].Nonce # 0
                  /\ transactions'[r][i] = transactions[r][i]

\* C14: a doPow run over N records whose PoW calls all succeed makes N PoW
\* calls, one per record, for the indices N-1, N-2, ..., 0 in that order; a
\* call starts when no other call of the run is open, and the call for
\* index i after the call for i+1 has returned its nonce and the hash of
\* that record has been taken.
C14_DescendingOnce == []C14_State /\ [][C14_Step]_vars

\* C14 witness: doPow has returned without error after the calls for the
\* indices 2, 1, 0 of three records.
C14_Witness ==
    \E r \in Reqs :
        /\ powRet[r] = "nil" /\ Len(transactions[r]) = 3
        /\ PowIndices(r) = <<3, 2, 1>>

\* The record of the internal bundle that holds input entry j (counted from
\* 1) when the bundle is the input reversed.
RecordOfInput(r, j) == transactions[r][Len(transactions[r]) + 1 - j]

\* C15: the internal bundle is the request's trytes list reversed: internal
\* index k holds the decoding of input entry N-1-k; the record that gets the
\* anchors and the first PoW call is input entry 0, and when doPow has
\* returned without error every input entry j >= 1 has as trunk the hash of
\* the attached input entry j-1.
C15_BundleReversed ==
    \A r \in Reqs :
        transactions[r] # <<>> =>
            LET inp == InputTrytes(r)
                n == Len(inp)
            IN  /\ Len(transactions[r]) = n
                /\ \A j \in 1..n :
                      /\ RecordOfInput(r, j).payload = NewTransaction(inp[j]).payload
                      /\ powLog[r] = <<>> => RecordOfInput(r, j) = NewTransaction(inp[j])
                /\ powLog[r] # <<>> =>
                      LET first == NewTransaction(powLog[r][1].input)
                      IN  /\ first.payload = NewTransaction(inp[1]).payload
                          /\ first.TrunkTransaction = command[r].TrunkTxHash
                          /\ first.BranchTransaction = command[r].BranchTxHash
                /\ powRet[r] = "nil" =>
                      \A j \in 2..n :
                          /\ RecordOfInput(r, j - 1).Nonce # 0
                          /\ RecordOfInput(r, j).TrunkTransaction =
                                 Hash(RecordOfInput(r, j - 1))

\* C15 witness: doPow has returned without error on the bundle of a request
\* with three entries, whose first entry got the first PoW call.
C15_Witness ==
    \E r \in Reqs :
        /\ powRet[r] = "nil" /\ Len(InputTrytes(r)) = 3
        /\ InputTrytes(r)[1] # InputTrytes(r)[2] /\ InputTrytes(r)[2] # InputTrytes(r)[3]
        /\ NewTransaction(powLog[r][1].input).payload = NewTransaction(InputTrytes(r)[1]).payload

\* The record without its nonce.
NonceErased(tx) == [tx EXCEPT !.Nonce = 0]

C16_State ==
    \A r \in Reqs : \A j \in 1..Len(powLog[r]) :
        LET k == powLog[r][j].index
            sent == NewTransaction(powLog[r][j].input)
        IN  /\ sent.Nonce = 0
            /\ NonceErased(transactions[r][k]) = sent

C16_Step ==
    \A r \in Reqs :
        /\ \A j \in 1..Len(powLog[r]) :
              LET k == powLog[r][j].index
              IN  transactions'[r][k] # transactions[r][k] =>
                      /\ pc[r] = "inpow" /\ idx[r] = k
                      /\ NonceErased(transactions'[r][k]) = NonceErased(transactions[r][k])
        /\ prev'[r] # prev[r] =>
              /\ pc[r] = "inpow"
              /\ transactions'[r][idx[r]].Nonce # 0
              /\ prev'[r] = Hash(transactions'[r][idx[r]])

\* C16: after the PoW call for a record has been made nothing of the record
\* but its nonce changes in that doPow run: trunk, branch, attachment
\* timestamp and both bounds stay as they were serialised for the call; and
\* the hash kept for the next record is the hash of the record with its
\* nonce stored.
C16_OnlyNonceAfterPow == []C16_State /\ [][C16_Step]_vars

\* C16 witness: the PoW call for the older of two records is open while the
\* newer one holds the nonce its call found.
C16_Witness ==
    \E r \in Reqs :
        /\ pc[r] = "inpow" /\ idx[r] = 1 /\ Len(transactions[r]) = 2
        /\ transactions[r][2].Nonce = MaxNonce
        /\ prev[r] = Hash(transactions[r][2])

\* C17: when the PoW function and the next handler return and the mutex is
\* granted fairly, every request that waits for the mutex gets it, and every
\* request that holds the mutex returns and no longer holds it.
C17_NoDeadlock ==
    \A r \in Reqs :
        /\ (pc[r] = "lock") ~> (mu = r)
        /\ (mu = r) ~> (pc[r] = "done" /\ mu # r)

\* C17 witness: a request waits for the mutex while its holder, sent an
\* attachToTangle command without trytes, is in the next handler.
C17_Witness ==
    \E r1, r2 \in Reqs :
        /\ pc[r1] = "lock" /\ mu = r2
        /\ pc[r2] = "next" /\ AttachPost(r2)

\* The request q is a POST with a body that can be read and parses as an
\* attachToTangle command.
IsAttachPost(q) ==
    /\ q.method = "POST" /\ ~q.body.isNil /\ ~q.body.broken
    /\ LET d == DecodeJSON(q.body.content)
       IN  ~d.err /\ ~d.cmd.isNil /\ d.cmd.Command = attachToTangleCommand

\* Every entry of the request's trytes list decodes.
EntriesDecode(r) ==
    \A k \in 1..Len(InputTrytes(r)) : ValidTrytes(InputTrytes(r)[k])

\* The stages of ServeHTTP that lead to the PoW function, and no other way
\* to it: a request goes on to the mutex exactly when it is an attach POST,
\* from the length check to the decoding exactly when it has 1..limit
\* entries, from the decoding to doPow exactly when every entry decodes, and
\* doPow calls the PoW function.
C18_Step ==
    \A r \in Reqs :
        /\ (pc[r] = "idle" /\ pc'[r] # "idle") =>
              (pc'[r] = "lock" <=> IsAttachPost(req'[r]))
        /\ (pc[r] = "lock" /\ pc'[r] # "lock") => pc'[r] = "check"
        /\ (pc[r] = "check" /\ pc'[r] # "check") =>
              (pc'[r] = "decode" <=>
                  (Len(InputTrytes(r)) >= 1 /\ Len(InputTrytes(r)) <= maxTxInBundle))
        /\ (pc[r] = "decode" /\ pc'[r] # "decode") =>
              (pc'[r] = "pow" <=> EntriesDecode(r))
        /\ (pc[r] = "pow" /\ pc'[r] # "pow") =>
              (pc'[r] = "inpow" /\ Len(powLog'[r]) = Len(powLog[r]) + 1)
        /\ powLog'[r] # powLog[r] => pc[r] = "pow"
        /\ pc'[r] = "lock" => pc[r] \in {"idle", "lock"}
        /\ pc'[r] = "check" => pc[r] \in {"lock", "check"}
        /\ pc'[r] = "decode" => pc[r] \in {"check", "decode"}
        /\ pc'[r] = "pow" => pc[r] \in {"decode", "inpow", "pow"}

C18_State ==
    \A r \in Reqs :
        /\ (powLog[r] # <<>> \/ InDoPow(r)) =>
              /\ IsAttachPost(req[r])
              /\ Len(InputTrytes(r)) >= 1
              /\ EntriesDecode(r)
              /\ ~Settled(r) => Len(InputTrytes(r)) <= maxTxInBundle
        /\ (req[r].method \notin {"", "POST"}) =>
              /\ pc[r] \in {"next", "done"}
              /\ powLog[r] = <<>>
              /\ rbody[r] = req[r].body /\ rbody[r].pos = 0
              /\ nextSaw[r] = <<req[r].body.content>>

\* C18: the PoW function is called for a request exactly when the request
\* is a POST whose body can be read and parses as an attachToTangle command
\* with at least one and at most the configured maximum of entries, all of
\* which decode; an attachToTangle body sent with another method goes to
\* the next handler unread.
C18_PowIffAttach == [][C18_Step]_vars /\ []C18_State

\* C18 witness: the PoW function was called for a request with exactly as
\* many entries as the limit allows.
C18_Witness ==
    \E r \in Reqs :
        /\ pc[r] = "inpow" /\ powLog[r] # <<>>
        /\ Len(InputTrytes(r)) = maxTxInBundle

\* The request was sent an attachToTangle command without trytes.
EmptyAttach(r) == AttachPost(r) /\ InputTrytes(r) = <<>>

C19_State ==
    \A r \in Reqs :
        /\ (pc[r] = "next" /\ mu = r) => EmptyAttach(r)
        /\ (pc[r] = "next" /\ ~EmptyAttach(r)) =>
              /\ mu # r
              /\ \/ req[r].method # "POST"
                 \/ DecodeJSON(req[r].body.content).err
                 \/ DecodeJSON(req[r].body.content).cmd.Command # attachToTangleCommand
        /\ pc[r] = "lock" => AttachPost(r)

C19_Step ==
    \A r \in Reqs :
        (pc[r] # "next" /\ pc'[r] = "next") =>
            \/ /\ pc[r] = "idle" /\ ~IsAttachPost(req'[r])
               /\ mu' = mu /\ mu # r
            \/ /\ pc[r] = "check" /\ mu = r /\ mu' = r
               /\ EmptyAttach(r)

\* C19: a request that is in the next handler while it holds the mutex was
\* sent an attachToTangle command without trytes; every other request that
\* reaches the next handler (another method, a body that does not parse,
\* another command) reaches it straight from its arrival, without taking or
\* waiting for the mutex, whoever holds it.
C19_NextUnderGate == []C19_State /\ [][C19_Step]_vars

\* C19 witness: a request that named another command is in the next handler
\* while another request holds the mutex in a PoW call.
C19_Witness ==
    \E r1, r2 \in Reqs :
        /\ pc[r1] = "next" /\ req[r1].method = "POST"
        /\ command[r1].Command = OtherCommand
        /\ pc[r2] = "inpow" /\ mu = r2

\* The clock reads and PoW results of the request's doPow run, by record.
EnvOfRun(r) ==
    [time |-> [i \in 1..Len(transactions[r]) |-> transactions[r][i].AttachmentTimestamp],
     pow |-> [i \in 1..Len(transactions[r]) |->
                 [nonce |-> transactions[r][i].Nonce,
                  ok |-> transactions[r][i].Nonce # 0]]]

\* The historical doPow run on the request's bundle as decoded, with the
\* clock reads and PoW results of the request's own run.
HistoricalRun(r, depth) ==
    doPowDepth([Trunk |-> command[r].TrunkTxHash, Branch |-> command[r].BranchTxHash],
               depth, Assemble(command[r].Trytes), FixedMWM, EnvOfRun(r))

\* C20: when doPow has returned, the historical doPow with a depth
\* parameter, run on the same bundle and anchors with the same clock reads
\* and the same PoW results, makes for every depth the same PoW calls in the
\* same order, leaves the same records and returns an error in the same
\* cases.
C20_DepthUnused ==
    \A r \in Reqs :
        powRet[r] # "none" =>
            \A depth \in 0..MaxDepth :
                LET h == HistoricalRun(r, depth)
                IN  /\ h.calls = powLog[r]
                    /\ h.tx = transactions[r]
                    /\ h.err <=> powRet[r] = "err"

\* C20 witness: doPow has returned an error after two of three PoW calls,
\* and the historical doPow with depth 0 stops there too.
C20_Witness ==
    \E r \in Reqs :
        /\ powRet[r] = "err" /\ Len(transactions[r]) = 3 /\ Len(powLog[r]) = 2
        /\ HistoricalRun(r, 0).err
        /\ Len(HistoricalRun(r, 0).calls) = 2
====
